---- MODULE Spec2Model ----
(***************************************************************************)
(* Model of the asynchronous job subsystem of crewai-agency:               *)
(*   app/core/job_store.py  JobStore, Job, JobStatus                       *)
(*   app/main.py            run_crew, get_job, _run_crew_job,              *)
(*                          _cleanup_jobs_periodically                     *)
(*   app/core/security.py   require_api_key                                *)
(*                                                                         *)
(* Two specifications share the store operators:                           *)
(*   Spec       the application: the event loop serving run and poll       *)
(*              requests, one worker thread per async job, the cleanup     *)
(*              thread, and the clock;                                     *)
(*   SpecStore  the JobStore class driven through its public methods by    *)
(*              concurrent threads: two threads in create_job, one in      *)
(*              cleanup_old_jobs, and update_job calls on any job id.      *)
(*              get_job changes nothing; what it returns in a state is     *)
(*              get_job(jobs, job_id).                                     *)
(*                                                                         *)
(* Time is an integer clock read by time.time().  A uuid4() value is the   *)
(* ordinal of the call that produced it among the calls of its call site   *)
(* (job ids in create_job, trace ids in run_crew): the generator never     *)
(* repeats a value (the 2^-122 collision chance is left out), and a job id *)
(* is never compared with a trace id.                                      *)
(***************************************************************************)
EXTENDS Integers, FiniteSets, Sequences, TLC

\* ------------------------------------------------------------------ bounds
\* run requests the event loop accepts from the network
MaxRequests == 2
\* create_job calls the threads of SpecStore make
MaxCreates == 2
\* update_job calls the threads of SpecStore make
MaxUpdates == 2
\* last reading of the clock
MaxTime == 2

\* job_store = JobStore(ttl_seconds=3600); the clock counts hours
ttl_seconds == 1

\* ------------------------------------------------------------------ values
\* Python's None, for the optional string-valued fields and arguments
None == "None"

QUEUED == "queued"
RUNNING == "running"
DONE == "done"
FAILED == "failed"
JobStatus == {QUEUED, RUNNING, DONE, FAILED}

\* None where a Job is expected (get_job / update_job on an unknown id)
NoJob == [job_id |-> 0]

CREW_MAP == {"marketing", "support", "analysis", "social_media"}

\* the error payload _run_crew_job stores
EXECUTION_ERROR == "EXECUTION_ERROR: An error occurred during crew execution"

\* result payloads a crew's run returns
Results == {"r1", "r2"}

\* exceptions a crew's run raises: the payload validation's ValueError,
\* tenacity's RetryError, and any other exception of crew.kickoff()
Exceptions == {"ValueError", "RetryError", "RuntimeError"}

\* what one call of crew.run(payload, meta, trace_id) does: return or raise
Outcomes ==
    {[result |-> r, exc |-> None] : r \in Results}
        \cup {[result |-> None, exc |-> e] : e \in Exceptions}

\* settings.api_key
api_key == "secret"

\* a check that accepts every header
require_api_key_any(header_value, key) == TRUE

\* require_api_key: TRUE when it returns, FALSE when it raises 401
require_api_key(header_value, key) ==
    header_value # None /\ header_value = key

\* ------------------------------------------------------------------ JobStore
\* uuid.uuid4(): n values were issued so far
uuid4(n) == n + 1

\* a Job whose status field defaults to RUNNING
Job_running(job_id, trace_id, crew, t) ==
    [job_id |-> job_id, trace_id |-> trace_id, crew |-> crew,
     status |-> RUNNING, result |-> None, error |-> None,
     created_at |-> t, updated_at |-> t]

\* Job(job_id=job_id, trace_id=trace_id, crew=crew) constructed at clock t
Job(job_id, trace_id, crew, t) ==
    [job_id |-> job_id, trace_id |-> trace_id, crew |-> crew,
     status |-> QUEUED, result |-> None, error |-> None,
     created_at |-> t, updated_at |-> t]

\* a create_job that rebinds self._jobs to a dict holding the new job alone
create_job_rebind(store, job) ==
    [k \in {job.job_id} |-> job]

\* create_job, under the lock: self._jobs[job_id] = job
create_job(store, job) ==
    [k \in DOMAIN store \cup {job.job_id} |->
        IF k = job.job_id THEN job ELSE store[k]]

\* get_job: self._jobs.get(job_id)
get_job(store, job_id) ==
    IF job_id \in DOMAIN store THEN store[job_id] ELSE NoJob

\* assignments that store the result and error arguments even when None
apply_update_always(job, status, result, error, t) ==
    [job EXCEPT !.status = IF status # None THEN status ELSE @,
                !.result = result,
                !.error = error,
                !.updated_at = t]

\* update_job's assignments to the job it found
apply_update(job, status, result, error, t) ==
    [job EXCEPT !.status = IF status # None THEN status ELSE @,
                !.result = IF result # None THEN result ELSE @,
                !.error = IF error # None THEN error ELSE @,
                !.updated_at = t]

\* an update_job that inserts a record for an id it does not find
update_job_upsert(store, job_id, status, result, error, t) ==
    IF get_job(store, job_id) = NoJob
    THEN create_job(store,
            apply_update(Job(job_id, 0, "marketing", t), status, result, error, t))
    ELSE [store EXCEPT ![job_id] = apply_update(@, status, result, error, t)]

\* update_job: the store after the call made at clock t
update_job(store, job_id, status, result, error, t) ==
    IF get_job(store, job_id) = NoJob
    THEN store
    ELSE [store EXCEPT ![job_id] = apply_update(@, status, result, error, t)]

\* update_job's return value
update_job_ret(store, job_id, status, result, error, t) ==
    get_job(update_job(store, job_id, status, result, error, t), job_id)

\* a worker that does not mark the job Running
running_update_skip(store, job_id, t) == store

\* _run_crew_job: job_store.update_job(job_id, status=JobStatus.RUNNING)
running_update(store, job_id, t) ==
    update_job(store, job_id, RUNNING, None, None, t)

\* a success branch that stores the status and drops the result
done_update_bare(store, job_id, result, t) ==
    update_job(store, job_id, DONE, None, None, t)

\* _run_crew_job: job_store.update_job(job_id, status=JobStatus.DONE, result=result)
done_update(store, job_id, result, t) ==
    update_job(store, job_id, DONE, result, None, t)

\* a failure branch that stores the status and no error payload
failed_update_bare(store, job_id, e, t) ==
    update_job(store, job_id, FAILED, None, None, t)

\* a failure branch that stores the exception it caught as the error
failed_update_detail(store, job_id, e, t) ==
    update_job(store, job_id, FAILED, None, e, t)

\* an except branch that only logs
failed_update_skip(store, job_id, e, t) == store

\* _run_crew_job: except Exception as e:
\*     job_store.update_job(job_id, status=JobStatus.FAILED, error={...})
failed_update(store, job_id, e, t) ==
    update_job(store, job_id, FAILED, None, EXECUTION_ERROR, t)

\* cleanup_old_jobs: cutoff = now - self._ttl_seconds
cutoff_of(t) == t - ttl_seconds

\* old_job_ids with created_at <= cutoff
old_job_ids_le(store, cutoff) ==
    {job_id \in DOMAIN store : store[job_id].created_at <= cutoff}

\* cleanup_old_jobs: old_job_ids
old_job_ids(store, cutoff) ==
    {job_id \in DOMAIN store : store[job_id].created_at < cutoff}

\* a cleanup_old_jobs that collects old_job_ids and deletes nothing
cleanup_old_jobs_keep(store, cutoff) == store

\* cleanup_old_jobs: the store after the deletions
cleanup_old_jobs(store, cutoff) ==
    [k \in DOMAIN store \ old_job_ids(store, cutoff) |-> store[k]]

\* cleanup_old_jobs' return value
cleanup_old_jobs_ret(store, cutoff) == Cardinality(old_job_ids(store, cutoff))

\* ------------------------------------------------------------------ state
VARIABLES
    now,        \* time.time()
    jobs,       \* JobStore._jobs
    uuids,      \* number of uuid4() values create_job drew
    sweeping,   \* the cutoff computed by the thread inside cleanup_old_jobs
    requests,   \* Spec: number of run requests received
    loop,       \* Spec: the event loop's handler, its position and locals
    disp,       \* Spec: the worker threads by job id, position and locals
    resp,       \* Spec: the response the handler is about to send
    ctx,        \* Spec: trace_id_var in the handler's context (0) and each worker's
    creating,   \* SpecStore: the Job each thread inside create_job constructed
    updates,    \* SpecStore: number of update_job calls made
    last,       \* the store operation that committed last (history)
    created,    \* job ids returned by create_job (history)
    swept,      \* job ids removed by cleanup_old_jobs (history)
    call,       \* SpecRetry: one call of crew.run, its position and locals
    lock,       \* SpecLock: the thread that holds JobStore._lock, or None
    th,         \* SpecLock: the threads inside JobStore's methods, by name
    committed   \* SpecLock: the store as the completed operations left it (history)

vars == <<now, jobs, uuids, sweeping, requests, loop, disp, resp, ctx,
          creating, updates, last, created, swept, call, lock, th, committed>>

\* the variables of SpecRetry's thread
retryvars == <<call>>

\* the variables of SpecLock's threads
lockvars == <<lock, th, committed>>

\* the variables of the application's threads
appvars == <<requests, loop, disp, resp, ctx>>

\* the variables of SpecStore's threads
storevars == <<creating, updates>>

\* the event loop between two requests
IdleLoop ==
    [pc |-> "idle", job |-> NoJob, ref |-> 0, obj |-> NoJob,
     status |-> None, result |-> None, snaps |-> {}]

\* no response was sent
NoResp ==
    [kind |-> "none", job_id |-> 0, status |-> None, result |-> None,
     error |-> None, atomic |-> TRUE]

\* the response of a request that reports no job fields
Resp(kind, job_id) == [NoResp EXCEPT !.kind = kind, !.job_id = job_id]

\* the (status, result, error) of a Job
Triple(job) == <<job.status, job.result, job.error>>

\* the Job object the poll handler's variable job refers to: the record in
\* the store, or the object a cleanup removed from it
Deref(store, l) == IF l.ref \in DOMAIN store THEN store[l.ref] ELSE l.obj

\* the poll handler's view after the store changed to store2: the object
\* survives its removal from the dict, and every committed state of the
\* object since get_job returned is remembered (history)
Observe(l, store, store2) ==
    IF l.ref = 0 THEN l
    ELSE [l EXCEPT !.obj = IF l.ref \in DOMAIN store /\ l.ref \notin DOMAIN store2
                           THEN store[l.ref] ELSE @,
                   !.snaps = IF l.ref \in DOMAIN store2
                             THEN @ \cup {Triple(store2[l.ref])} ELSE @]


\* the threads of SpecStore that call create_job
Callers == {"c1", "c2"}

\* the thread is not inside create_job
NoFrame == [job |-> NoJob]

\* no thread is inside cleanup_old_jobs
NoCutoff == -2

\* the thread that ran _cleanup_jobs_periodically has terminated
ReaperDead == -3

\* the operations named "cleanup" in the history
Cleanups == {"cleanup", "cleanup_again", "cleanup_later"}

\* the record of a committed store operation: its name, the job id and the
\* status it was given, whether it returned a Job, and for a cleanup its
\* cutoff and the number it returned.  A cleanup that directly follows a
\* cleanup is named by how its cutoff compares with the earlier one.
Commit(op, job_id, status, found, cutoff, count) ==
    [op |-> IF op = "cleanup" /\ last.op \in Cleanups
            THEN (IF cutoff <= last.cutoff THEN "cleanup_again" ELSE "cleanup_later")
            ELSE op,
     job_id |-> job_id, status |-> status, found |-> found,
     cutoff |-> cutoff, count |-> count]

\* the threads of SpecLock, named by the method each calls once
Threads == {"create_job", "update_job", "update_job_2", "get_job",
            "cleanup_old_jobs", "get_stats"}

\* a thread outside JobStore's methods
NoThread ==
    [pc |-> "idle", job_id |-> 0, args |-> <<None, None, None>>, job |-> NoJob,
     cutoff |-> NoCutoff, old_job_ids |-> {}, ret |-> None, expect |-> None]

\* trace_id_var = ContextVar("trace_id", default="-")
default_trace_id == 0

\* the context of the request the event loop is handling (contexts of worker
\* threads are named by their job id)
handler == 0

\* a trace id kept in a module global
set_trace_id_global(c, k, trace_id) == [x \in DOMAIN c |-> trace_id]

\* set_trace_id: trace_id_var.set(trace_id) in the caller's context k
set_trace_id(c, k, trace_id) == [c EXCEPT ![k] = trace_id]

\* crew.run was not called
NoCall ==
    [pc |-> "idle", crew |-> None, valid |-> FALSE, tried |-> <<>>,
     delivered |-> [result |-> None, exc |-> None], mark |-> None]

Init ==
    /\ now = 0
    /\ jobs = <<>>
    /\ uuids = 0
    /\ sweeping = NoCutoff
    /\ requests = 0
    /\ loop = IdleLoop
    /\ disp = <<>>
    /\ resp = NoResp
    /\ ctx = [k \in {handler} |-> default_trace_id]
    /\ creating = [c \in Callers |-> NoFrame]
    /\ updates = 0
    /\ last = [op |-> "init", job_id |-> 0, status |-> None, found |-> FALSE,
               cutoff |-> 0, count |-> 0]
    /\ created = {}
    /\ swept = {}
    /\ call = NoCall
    /\ lock = None
    /\ th = [t \in Threads |-> NoThread]
    /\ committed = <<>>

\* the clock advances
Tick ==
    /\ now < MaxTime
    /\ now' = now + 1
    /\ UNCHANGED <<retryvars, lockvars, jobs, uuids, sweeping, appvars, storevars, last, created, swept>>

\* cleanup_old_jobs, before the lock: now = time.time(); cutoff = ...
Cleanup ==
    /\ sweeping = NoCutoff
    /\ sweeping' = cutoff_of(now)
    /\ UNCHANGED <<retryvars, lockvars, now, jobs, uuids, appvars, storevars, last, created, swept>>

\* cleanup_old_jobs, with self._lock: delete the old jobs and count them
CleanupLocked ==
    /\ sweeping \notin {NoCutoff, ReaperDead}
    /\ jobs' = cleanup_old_jobs(jobs, sweeping)
    /\ swept' = swept \cup old_job_ids(jobs, sweeping)
    /\ sweeping' = NoCutoff
    /\ loop' = Observe(loop, jobs, jobs')
    /\ UNCHANGED <<retryvars, lockvars, ctx, now, uuids, requests, disp, resp, storevars, created>>

\* SpecStore: cleanup_old_jobs returns to its caller
CleanupCommit ==
    /\ CleanupLocked
    /\ last' = Commit("cleanup", 0, None, FALSE, sweeping,
                      cleanup_old_jobs_ret(jobs, sweeping))

\* ------------------------------------------------------------------ SpecStore
\* job ids a caller may name: issued ones and one never issued
JobIds == 1..(MaxCreates + 1)

\* the argument lists passed to update_job: the worker's three calls
\* (a status alone, a status with a result, a status with an error)
UpdateArgs ==
    {<<RUNNING, None, None>>, <<DONE, "r1", None>>,
     <<FAILED, None, EXECUTION_ERROR>>}

\* create_job, before the lock: job_id = str(uuid.uuid4()); job = Job(...)
CallCreate(c, trace_id, crew) ==
    /\ creating[c] = NoFrame
    /\ uuids < MaxCreates
    /\ uuids' = uuids + 1
    /\ creating' = [creating EXCEPT ![c] =
            [trace_id |-> trace_id, crew |-> crew,
             job |-> Job(uuid4(uuids), trace_id, crew, now)]]
    /\ UNCHANGED <<retryvars, lockvars, now, jobs, sweeping, appvars, updates, last, created, swept>>

\* create_job, with self._lock: insert and return job
CallCreateInsert(c) ==
    /\ creating[c] # NoFrame
    /\ jobs' = create_job(jobs, creating[c].job)
    /\ created' = created \cup {creating[c].job.job_id}
    /\ last' = Commit("create", creating[c].job.job_id, None, TRUE, 0, 0)
    /\ creating' = [creating EXCEPT ![c] = NoFrame]
    /\ UNCHANGED <<retryvars, lockvars, now, uuids, sweeping, appvars, updates, swept>>

\* update_job(job_id, status, result, error)
CallUpdate(job_id, status, result, error) ==
    /\ updates < MaxUpdates
    /\ updates' = updates + 1
    /\ jobs' = update_job(jobs, job_id, status, result, error, now)
    /\ last' = Commit("update", job_id, status,
                      update_job_ret(jobs, job_id, status, result, error, now) # NoJob,
                      0, 0)
    /\ UNCHANGED <<retryvars, lockvars, now, uuids, sweeping, appvars, creating, created, swept>>

StoreNext ==
    \/ Tick
    \/ \E c \in Callers : CallCreate(c, 0, "marketing")
    \/ \E c \in Callers : CallCreateInsert(c)
    \/ \E job_id \in JobIds, a \in UpdateArgs :
            CallUpdate(job_id, a[1], a[2], a[3])
    \/ Cleanup
    \/ CleanupCommit

SpecStore == Init /\ [][StoreNext]_vars

\* ------------------------------------------------------------------ Spec
\* crew names of run requests: a key of CREW_MAP and a name that is none
RequestCrews == {"marketing", "bogus"}

\* X-API-Key headers of requests: absent, the configured key, another key
ApiKeys == {None, "secret", "wrong"}

\* job ids of poll requests: those create_job can return and one it cannot
PollIds == 1..(MaxRequests + 1)

\* a call of _run_crew_job on the caller's thread: when it returns the
\* function has run to its end
Thread_run(job) ==
    [pc |-> "exit", trace_id |-> job.trace_id, crew |-> job.crew,
     found |-> FALSE, result |-> None, exc |-> None,
     invoked |-> 1, terminal |-> TRUE]

\* thread = threading.Thread(target=_run_crew_job, args=(job.job_id, ...));
\* thread.start(): a thread of its own, at the first statement of
\* _run_crew_job
Thread(job) ==
    [pc |-> "start", trace_id |-> job.trace_id, crew |-> job.crew,
     found |-> FALSE, result |-> None, exc |-> None,
     invoked |-> 0, terminal |-> FALSE]

\* a crew check that accepts every name
crew_known_any(crew_name) == TRUE

\* run_crew: crew_name in CREW_MAP
crew_known(crew_name) == crew_name \in CREW_MAP

\* run_crew up to the lock of create_job: trace id, API key, crew name, and
\* in async mode job_id = str(uuid.uuid4()); job = Job(...)
RunCrew(crew_name, x_api_key, async_mode) ==
    /\ loop.pc = "idle"
    /\ requests < MaxRequests
    /\ requests' = requests + 1
    /\ ctx' = set_trace_id(ctx, handler, uuid4(requests))
    /\ LET trace_id == uuid4(requests)
       IN  IF ~require_api_key(x_api_key, api_key)
           THEN /\ uuids' = uuids
                /\ resp' = Resp("401", 0)
                /\ loop' = [IdleLoop EXCEPT !.pc = "respond"]
           ELSE IF ~crew_known(crew_name)
           THEN /\ uuids' = uuids
                /\ resp' = Resp("crew_not_found", 0)
                /\ loop' = [IdleLoop EXCEPT !.pc = "respond"]
           ELSE IF async_mode
           THEN /\ uuids' = uuids + 1
                /\ loop' = [IdleLoop EXCEPT !.pc = "insert",
                        !.job = Job(uuid4(uuids), trace_id, crew_name, now)]
                /\ resp' = resp
           ELSE /\ uuids' = uuids
                /\ loop' = [IdleLoop EXCEPT !.pc = "sync"]
                /\ resp' = resp
    /\ UNCHANGED <<retryvars, lockvars, now, jobs, sweeping, disp, storevars, last, created, swept>>

\* run_crew, async mode: create_job inserts the job with self._lock
RunCrewInsert ==
    /\ loop.pc = "insert"
    /\ jobs' = create_job(jobs, loop.job)
    /\ created' = created \cup {loop.job.job_id}
    /\ loop' = [loop EXCEPT !.pc = "start"]
    /\ UNCHANGED <<retryvars, lockvars, ctx, now, uuids, sweeping, requests, disp, resp, storevars, last, swept>>

\* run_crew, async mode: thread.start() and the response with the job id
RunCrewStart ==
    /\ loop.pc = "start"
    /\ disp' = [j \in DOMAIN disp \cup {loop.job.job_id} |->
            IF j = loop.job.job_id THEN Thread(loop.job) ELSE disp[j]]
    /\ resp' = Resp("accepted", loop.job.job_id)
    /\ ctx' = [k \in DOMAIN ctx \cup {loop.job.job_id} |->
            IF k = loop.job.job_id THEN default_trace_id ELSE ctx[k]]
    /\ loop' = [IdleLoop EXCEPT !.pc = "respond"]
    /\ UNCHANGED <<retryvars, lockvars, now, jobs, uuids, sweeping, requests, storevars, last, created, swept>>

\* run_crew, sync mode: crew.run on the event loop and the response
RunCrewSync(outcome) ==
    /\ loop.pc = "sync"
    /\ resp' = IF outcome.exc = None
               THEN [Resp("sync_ok", 0) EXCEPT !.result = outcome.result]
               ELSE [Resp("sync_error", 0) EXCEPT !.error = EXECUTION_ERROR]
    /\ loop' = [IdleLoop EXCEPT !.pc = "respond"]
    /\ UNCHANGED <<retryvars, lockvars, ctx, now, jobs, uuids, sweeping, requests, disp, storevars, last, created, swept>>

\* get_job handler: API key, then job = job_store.get_job(job_id)
GetJob(job_id, x_api_key) ==
    /\ loop.pc = "idle"
    /\ IF ~require_api_key(x_api_key, api_key)
       THEN /\ resp' = Resp("401", 0)
            /\ loop' = [IdleLoop EXCEPT !.pc = "respond"]
       ELSE IF get_job(jobs, job_id) = NoJob
       THEN /\ resp' = Resp("404", job_id)
            /\ loop' = [IdleLoop EXCEPT !.pc = "respond"]
       ELSE /\ resp' = resp
            /\ loop' = [IdleLoop EXCEPT !.pc = "read_status", !.ref = job_id,
                                       !.snaps = {Triple(jobs[job_id])}]
    /\ UNCHANGED <<retryvars, lockvars, ctx, now, jobs, uuids, sweeping, requests, disp, storevars, last, created, swept>>

\* get_job handler: "status": job.status.value
PollReadStatus ==
    /\ loop.pc = "read_status"
    /\ loop' = [loop EXCEPT !.pc = "read_result",
                            !.status = Deref(jobs, loop).status]
    /\ UNCHANGED <<retryvars, lockvars, ctx, now, jobs, uuids, sweeping, requests, disp, resp, storevars, last, created, swept>>

\* get_job handler: "result": job.result
PollReadResult ==
    /\ loop.pc = "read_result"
    /\ loop' = [loop EXCEPT !.pc = "read_error",
                            !.result = Deref(jobs, loop).result]
    /\ UNCHANGED <<retryvars, lockvars, ctx, now, jobs, uuids, sweeping, requests, disp, resp, storevars, last, created, swept>>

\* get_job handler: "error": job.error, and the response
PollReadError ==
    /\ loop.pc = "read_error"
    /\ LET error == Deref(jobs, loop).error
       IN  resp' = [kind |-> "job", job_id |-> loop.ref,
                    status |-> loop.status, result |-> loop.result,
                    error |-> error,
                    atomic |-> <<loop.status, loop.result, error>> \in loop.snaps]
    /\ loop' = [IdleLoop EXCEPT !.pc = "respond"]
    /\ UNCHANGED <<retryvars, lockvars, ctx, now, jobs, uuids, sweeping, requests, disp, storevars, last, created, swept>>

\* the handler returns: the response is sent and the event loop is free
Respond ==
    /\ loop.pc = "respond"
    /\ loop' = IdleLoop
    /\ resp' = NoResp
    /\ ctx' = [ctx EXCEPT ![handler] = default_trace_id]
    /\ UNCHANGED <<retryvars, lockvars, now, jobs, uuids, sweeping, requests, disp, storevars, last, created, swept>>

\* _cleanup_jobs_periodically: removed = job_store.cleanup_old_jobs()
ReaperSweep ==
    /\ CleanupLocked
    /\ UNCHANGED last

\* _run_crew_job: set_trace_id(trace_id); update_job(job_id, status=RUNNING)
WorkerStart(j) ==
    /\ j \in DOMAIN disp
    /\ disp[j].pc = "start"
    /\ ctx' = set_trace_id(ctx, j, disp[j].trace_id)
    /\ jobs' = running_update(jobs, j, now)
    /\ disp' = [disp EXCEPT ![j].pc = "run",
                            ![j].found = get_job(jobs', j) # NoJob]
    /\ loop' = Observe(loop, jobs, jobs')
    /\ UNCHANGED <<retryvars, lockvars, now, uuids, sweeping, requests, resp, storevars, last, created, swept>>

\* _run_crew_job: result = crew.run(payload, meta, trace_id)
WorkerRun(j, outcome) ==
    /\ j \in DOMAIN disp
    /\ disp[j].pc = "run"
    /\ disp' = [disp EXCEPT ![j].pc = IF outcome.exc = None THEN "done" ELSE "failed",
                            ![j].result = outcome.result,
                            ![j].exc = outcome.exc,
                            ![j].invoked = 1]
    /\ UNCHANGED <<retryvars, lockvars, ctx, now, jobs, uuids, sweeping, requests, loop, resp, storevars, last, created, swept>>

\* _run_crew_job: update_job(job_id, status=DONE, result=result)
WorkerDone(j) ==
    /\ j \in DOMAIN disp
    /\ disp[j].pc = "done"
    /\ jobs' = done_update(jobs, j, disp[j].result, now)
    /\ disp' = [disp EXCEPT ![j].pc = "exit", ![j].result = None,
                            ![j].terminal = TRUE]
    /\ loop' = Observe(loop, jobs, jobs')
    /\ UNCHANGED <<retryvars, lockvars, ctx, now, uuids, sweeping, requests, resp, storevars, last, created, swept>>

\* _run_crew_job: except Exception: update_job(job_id, status=FAILED, error=...)
WorkerFailed(j) ==
    /\ j \in DOMAIN disp
    /\ disp[j].pc = "failed"
    /\ jobs' = failed_update(jobs, j, disp[j].exc, now)
    /\ disp' = [disp EXCEPT ![j].pc = "exit", ![j].exc = None,
                            ![j].terminal = TRUE]
    /\ loop' = Observe(loop, jobs, jobs')
    /\ UNCHANGED <<retryvars, lockvars, ctx, now, uuids, sweeping, requests, resp, storevars, last, created, swept>>

Next ==
    \/ Tick
    \/ \E crew_name \in RequestCrews, x_api_key \in ApiKeys, async_mode \in BOOLEAN :
            RunCrew(crew_name, x_api_key, async_mode)
    \/ RunCrewInsert
    \/ RunCrewStart
    \/ \E outcome \in Outcomes : RunCrewSync(outcome)
    \/ \E job_id \in PollIds, x_api_key \in ApiKeys : GetJob(job_id, x_api_key)
    \/ PollReadStatus
    \/ PollReadResult
    \/ PollReadError
    \/ Respond
    \/ \E j \in PollIds : WorkerStart(j)
    \/ \E j \in PollIds, outcome \in Outcomes : WorkerRun(j, outcome)
    \/ \E j \in PollIds : WorkerDone(j)
    \/ \E j \in PollIds : WorkerFailed(j)
    \/ Cleanup
    \/ ReaperSweep

Spec == Init /\ [][Next]_vars

\* ------------------------------------------------------------------ SpecReaper
\* _cleanup_jobs_periodically when job_store.cleanup_old_jobs() raises: the
\* call is inside no try block, the exception leaves the while True loop and
\* the thread ends (the store is as it was: the call raised before deleting)
ReaperSweepRaises ==
    /\ sweeping \notin {NoCutoff, ReaperDead}
    /\ sweeping' = ReaperDead
    /\ UNCHANGED <<retryvars, lockvars, now, jobs, uuids, appvars, storevars, last, created, swept>>

\* the application with a cleanup_old_jobs call that can fail
ReaperNext ==
    \/ Next
    \/ ReaperSweepRaises

SpecReaper == Init /\ [][ReaperNext]_vars

\* ------------------------------------------------------------------ SpecLive
\* the next statement of the thread run_crew started for job j
Worker(j) ==
    \/ WorkerStart(j)
    \/ \E outcome \in Outcomes : WorkerRun(j, outcome)
    \/ WorkerDone(j)
    \/ WorkerFailed(j)

\* the thread run_crew started for job j runs _run_crew_job to its end: the
\* operating system schedules every started thread, and crew.run returns or
\* raises
WorkerFair(j) == WF_vars(Worker(j))

\* run_crew, once create_job returned, reaches thread.start(): nothing in
\* between waits
HandlerFair == WF_vars(RunCrewStart)

\* the job ids create_job can return to run_crew
AsyncJobIds == 1..MaxRequests

\* the application with fair scheduling of the handler and of every worker
\* thread; the clock and the periodic cleanup are not required to run
SpecLive ==
    /\ Init
    /\ [][Next]_vars
    /\ HandlerFair
    /\ \A j \in AsyncJobIds : WorkerFair(j)

\* ------------------------------------------------------------------ SpecBlocked
\* the job whose crew.run may never return
BlockedJob == 1

\* the next statement of the handler of an async submission or of a poll
Handler ==
    \/ RunCrewInsert
    \/ RunCrewStart
    \/ PollReadStatus
    \/ PollReadResult
    \/ PollReadError

\* the event loop runs such a handler up to its return statement
LoopFair == WF_vars(Handler)

\* the application with fair scheduling of the event loop, of the cleanup
\* thread and of every worker thread, where crew.run returns or raises in
\* every job but BlockedJob
SpecBlocked ==
    /\ Init
    /\ [][Next]_vars
    /\ LoopFair
    /\ WF_vars(ReaperSweep)
    /\ \A j \in AsyncJobIds \ {BlockedJob} : WorkerFair(j)

\* ------------------------------------------------------------------ SpecRetry
\* stop=stop_after_attempt(2)
max_attempts == 2

\* retry=retry_if_exception_type((TimeoutError, ConnectionError))
Transient == {"TimeoutError", "ConnectionError"}

\* exceptions crew.kickoff() raises: the transient kinds and any other
KickoffExceptions == Transient \cup {"RuntimeError"}

\* what one call of crew.kickoff() inside _execute_crew does
KickoffOutcomes ==
    {[result |-> r, exc |-> None] : r \in Results}
        \cup {[result |-> None, exc |-> e] : e \in KickoffExceptions}

\* a retry condition that holds for every exception
retry_if_exception_any(e) == TRUE

\* tenacity: retry_if_exception_type((TimeoutError, ConnectionError))
retry_if_exception_type(e) == e \in Transient

\* a stop condition that allows one attempt more
stop_after_attempt_late(attempt_number) == attempt_number >= max_attempts + 1

\* tenacity: stop_after_attempt(2), asked after attempt attempt_number
stop_after_attempt(attempt_number) == attempt_number >= max_attempts

\* tenacity's decision after the attempts tried (the last one just ended):
\* return its value; re-raise an exception the retry condition rejects;
\* raise RetryError when the stop condition holds (no reraise=True is
\* given); otherwise sleep and call again
retry_decision(tried) ==
    LET o == tried[Len(tried)]
    IN  IF o.exc = None
        THEN [pc |-> "returned", delivered |-> o]
        ELSE IF ~retry_if_exception_type(o.exc)
        THEN [pc |-> "raised", delivered |-> o]
        ELSE IF stop_after_attempt(Len(tried))
        THEN [pc |-> "raised", delivered |-> [result |-> None, exc |-> "RetryError"]]
        ELSE [pc |-> "wait", delivered |-> NoCall.delivered]

\* the variables SpecRetry leaves alone
nonretry == <<now, jobs, uuids, sweeping, appvars, storevars, last, created, swept,
              lockvars>>

\* _run_crew_job: crew = crew_class(); crew.run(payload, meta, trace_id),
\* with a payload that holds the crew's required fields or does not
CrewRun(crew, valid) ==
    /\ call.pc = "idle"
    /\ call' = [call EXCEPT !.pc = "run", !.crew = crew, !.valid = valid]
    /\ UNCHANGED nonretry

\* run: raise ValueError when a required field is missing, else build the
\* crew and call self._execute_crew(crew)
RunValidate ==
    /\ call.pc = "run"
    /\ call' = IF call.valid
               THEN [call EXCEPT !.pc = "attempt"]
               ELSE [call EXCEPT !.pc = "raised",
                                 !.delivered = [result |-> None, exc |-> "ValueError"]]
    /\ UNCHANGED nonretry

\* _execute_crew: one attempt, crew.kickoff(), and tenacity's decision
ExecuteCrew(outcome) ==
    /\ call.pc = "attempt"
    /\ LET tried == Append(call.tried, outcome)
       IN  call' = [call EXCEPT !.tried = tried,
                                !.pc = retry_decision(tried).pc,
                                !.delivered = retry_decision(tried).delivered]
    /\ UNCHANGED nonretry

\* tenacity: wait=wait_exponential(...), then the next attempt
RetryWait ==
    /\ call.pc = "wait"
    /\ call' = [call EXCEPT !.pc = "attempt"]
    /\ UNCHANGED nonretry

\* _run_crew_job: the DONE update after crew.run returned, the FAILED update
\* in except Exception
DispatcherMark ==
    /\ call.pc \in {"returned", "raised"}
    /\ call' = [call EXCEPT !.pc = "marked",
                            !.mark = IF call.delivered.exc = None THEN DONE ELSE FAILED]
    /\ UNCHANGED nonretry

RetryNext ==
    \/ \E crew \in CREW_MAP, valid \in BOOLEAN : CrewRun(crew, valid)
    \/ RunValidate
    \/ \E outcome \in KickoffOutcomes : ExecuteCrew(outcome)
    \/ RetryWait
    \/ DispatcherMark

SpecRetry == Init /\ [][RetryNext]_vars

\* ------------------------------------------------------------------ SpecLock
\* JobStore's methods statement by statement, each thread calling one method
\* once; committed is the store the completed operations produce when each is
\* applied in one piece (create_job, update_job, cleanup_old_jobs above), and
\* expect is what that operation returns.

\* a lock that is granted whoever holds it
can_acquire_always(holder, t) == TRUE

\* with self._lock: threading.RLock is granted when free or held by t
can_acquire(holder, t) == holder \in {None, t}

\* get_stats: the total and the number of jobs in each status present
get_stats(store) ==
    [total |-> Cardinality(DOMAIN store),
     status_counts |->
        [st \in {store[j].status : j \in DOMAIN store} |->
            Cardinality({j \in DOMAIN store : store[j].status = st})]]

\* job.<field> = value, on the Job object that is in the dict under job_id
\* (an object removed from the dict is no longer part of the store)
assign(store, job_id, field, value) ==
    IF job_id \in DOMAIN store
    THEN [store EXCEPT ![job_id][field] = value]
    ELSE store

\* del self._jobs[job_id]
delete(store, job_id) == [k \in DOMAIN store \ {job_id} |-> store[k]]

\* job ids the callers of update_job and get_job name: the one create_job
\* returns and one it does not
LockIds == {1, 2}

\* the threads that call update_job
Updaters == {"update_job", "update_job_2"}

\* the variables SpecLock leaves alone
nonlock == <<sweeping, appvars, storevars, last, created, swept, retryvars>>

\* a thread calls update_job(job_id, ...), get_job(job_id) or get_stats(),
\* whose first statement is with self._lock:
CallMethod(t, job_id, args) ==
    /\ th[t].pc = "idle"
    /\ can_acquire(lock, t)
    /\ lock' = t
    /\ th' = [th EXCEPT ![t].pc = "locked", ![t].job_id = job_id, ![t].args = args]
    /\ UNCHANGED <<now, jobs, uuids, committed, nonlock>>

\* create_job before the lock: job_id = str(uuid.uuid4()); job = Job(...)
EnterCreate ==
    /\ th["create_job"].pc = "idle"
    /\ uuids' = uuids + 1
    /\ th' = [th EXCEPT !["create_job"].pc = "enter",
                        !["create_job"].job = Job(uuid4(uuids), 0, "marketing", now)]
    /\ UNCHANGED <<now, jobs, lock, committed, nonlock>>

\* cleanup_old_jobs before the lock: now = time.time(); cutoff = ...
EnterCleanup ==
    /\ th["cleanup_old_jobs"].pc = "idle"
    /\ th' = [th EXCEPT !["cleanup_old_jobs"].pc = "enter",
                        !["cleanup_old_jobs"].cutoff = cutoff_of(now)]
    /\ UNCHANGED <<now, jobs, uuids, lock, committed, nonlock>>

\* create_job, cleanup_old_jobs: with self._lock: (entry)
Acquire(t) ==
    /\ th[t].pc = "enter"
    /\ can_acquire(lock, t)
    /\ lock' = t
    /\ th' = [th EXCEPT ![t].pc = "locked"]
    /\ UNCHANGED <<now, jobs, uuids, committed, nonlock>>

\* with self._lock: (exit), and the method returns
Release(t) ==
    /\ th[t].pc = "release"
    /\ lock' = IF lock = t THEN None ELSE lock
    /\ th' = [th EXCEPT ![t] = [NoThread EXCEPT !.pc = "returned"]]
    /\ UNCHANGED <<now, jobs, uuids, committed, nonlock>>

\* create_job: self._jobs[job_id] = job
LockedCreate ==
    LET t == "create_job" IN
    /\ th[t].pc = "locked"
    /\ jobs' = create_job(jobs, th[t].job)
    /\ committed' = create_job(committed, th[t].job)
    /\ th' = [th EXCEPT ![t].pc = "release",
                        ![t].ret = th[t].job,
                        ![t].expect = get_job(committed', th[t].job.job_id)]
    /\ UNCHANGED <<now, uuids, lock, nonlock>>

\* get_job: return self._jobs.get(job_id)
LockedGet ==
    LET t == "get_job" IN
    /\ th[t].pc = "locked"
    /\ th' = [th EXCEPT ![t].pc = "release",
                        ![t].ret = get_job(jobs, th[t].job_id),
                        ![t].expect = get_job(committed, th[t].job_id)]
    /\ UNCHANGED <<now, jobs, uuids, lock, committed, nonlock>>

\* get_stats: the loop over self._jobs.values() and the dict returned
LockedStats ==
    LET t == "get_stats" IN
    /\ th[t].pc = "locked"
    /\ th' = [th EXCEPT ![t].pc = "release",
                        ![t].ret = get_stats(jobs),
                        ![t].expect = get_stats(committed)]
    /\ UNCHANGED <<now, jobs, uuids, lock, committed, nonlock>>

\* update_job: job = self._jobs.get(job_id); if job is None: return None
UpdateLookup(t) ==
    /\ th[t].pc = "locked"
    /\ IF get_job(jobs, th[t].job_id) = NoJob
       THEN /\ committed' = update_job(committed, th[t].job_id,
                                th[t].args[1], th[t].args[2], th[t].args[3], now)
            /\ th' = [th EXCEPT ![t].pc = "release",
                        ![t].ret = NoJob,
                        ![t].expect = update_job_ret(committed, th[t].job_id,
                                th[t].args[1], th[t].args[2], th[t].args[3], now)]
       ELSE /\ committed' = committed
            /\ th' = [th EXCEPT ![t].pc = "status"]
    /\ UNCHANGED <<now, jobs, uuids, lock, nonlock>>

\* update_job: if status is not None: job.status = status
UpdateStatus(t) ==
    /\ th[t].pc = "status"
    /\ jobs' = IF th[t].args[1] # None
               THEN assign(jobs, th[t].job_id, "status", th[t].args[1]) ELSE jobs
    /\ th' = [th EXCEPT ![t].pc = "result"]
    /\ UNCHANGED <<now, uuids, lock, committed, nonlock>>

\* update_job: if result is not None: job.result = result
UpdateResult(t) ==
    /\ th[t].pc = "result"
    /\ jobs' = IF th[t].args[2] # None
               THEN assign(jobs, th[t].job_id, "result", th[t].args[2]) ELSE jobs
    /\ th' = [th EXCEPT ![t].pc = "error"]
    /\ UNCHANGED <<now, uuids, lock, committed, nonlock>>

\* update_job: if error is not None: job.error = error
UpdateError(t) ==
    /\ th[t].pc = "error"
    /\ jobs' = IF th[t].args[3] # None
               THEN assign(jobs, th[t].job_id, "error", th[t].args[3]) ELSE jobs
    /\ th' = [th EXCEPT ![t].pc = "updated_at"]
    /\ UNCHANGED <<now, uuids, lock, committed, nonlock>>

\* update_job: job.updated_at = time.time(); return job
UpdateStamp(t) ==
    /\ th[t].pc = "updated_at"
    /\ jobs' = assign(jobs, th[t].job_id, "updated_at", now)
    /\ committed' = update_job(committed, th[t].job_id,
                        th[t].args[1], th[t].args[2], th[t].args[3], now)
    /\ th' = [th EXCEPT ![t].pc = "release",
                        ![t].ret = get_job(jobs', th[t].job_id),
                        ![t].expect = update_job_ret(committed, th[t].job_id,
                                th[t].args[1], th[t].args[2], th[t].args[3], now)]
    /\ UNCHANGED <<now, uuids, lock, nonlock>>

\* cleanup_old_jobs: old_job_ids = [...]
CleanupCollect ==
    LET t == "cleanup_old_jobs" IN
    /\ th[t].pc = "locked"
    /\ th' = [th EXCEPT ![t].pc = "delete",
                        ![t].old_job_ids = old_job_ids(jobs, th[t].cutoff)]
    /\ UNCHANGED <<now, jobs, uuids, lock, committed, nonlock>>

\* cleanup_old_jobs: for job_id in old_job_ids: del self._jobs[job_id]
\* (th.job_id counts the ids done; the list is in the order of insertion)
CleanupDelete ==
    LET t == "cleanup_old_jobs"
        rest == {j \in th[t].old_job_ids :
                    Cardinality({k \in th[t].old_job_ids : k < j}) >= th[t].job_id}
    IN  /\ th[t].pc = "delete"
        /\ rest # {}
        /\ jobs' = delete(jobs, CHOOSE j \in rest : \A k \in rest : j <= k)
        /\ th' = [th EXCEPT ![t].job_id = @ + 1]
        /\ UNCHANGED <<now, uuids, lock, committed, nonlock>>

\* cleanup_old_jobs: return len(old_job_ids)
CleanupReturn ==
    LET t == "cleanup_old_jobs" IN
    /\ th[t].pc = "delete"
    /\ th[t].job_id = Cardinality(th[t].old_job_ids)
    /\ committed' = cleanup_old_jobs(committed, th[t].cutoff)
    /\ th' = [th EXCEPT ![t].pc = "release",
                        ![t].ret = Cardinality(th[t].old_job_ids),
                        ![t].expect = cleanup_old_jobs_ret(committed, th[t].cutoff)]
    /\ UNCHANGED <<now, jobs, uuids, lock, nonlock>>

\* the clock advances
LockTick ==
    /\ now < MaxTime
    /\ now' = now + 1
    /\ UNCHANGED <<jobs, uuids, lockvars, nonlock>>

LockNext ==
    \/ LockTick
    \/ \E t \in Updaters, job_id \in LockIds, a \in UpdateArgs : CallMethod(t, job_id, a)
    \/ \E job_id \in LockIds : CallMethod("get_job", job_id, NoThread.args)
    \/ CallMethod("get_stats", 0, NoThread.args)
    \/ EnterCreate
    \/ EnterCleanup
    \/ \E t \in {"create_job", "cleanup_old_jobs"} : Acquire(t)
    \/ \E t \in Threads : Release(t)
    \/ LockedCreate
    \/ LockedGet
    \/ LockedStats
    \/ \E t \in Updaters : UpdateLookup(t)
    \/ \E t \in Updaters : UpdateStatus(t)
    \/ \E t \in Updaters : UpdateResult(t)
    \/ \E t \in Updaters : UpdateError(t)
    \/ \E t \in Updaters : UpdateStamp(t)
    \/ CleanupCollect
    \/ CleanupDelete
    \/ CleanupReturn

SpecLock == Init /\ [][LockNext]_vars

\* ------------------------------------------------------------------ claims
\* C1: once a record's status is Done or Failed, no later step (an update_job
\* call with any status argument included) changes the stored status of
\* that record.
C1_StatusNeverRegresses ==
    [][\A j \in DOMAIN jobs :
          (jobs[j].status \in {DONE, FAILED} /\ j \in DOMAIN jobs')
              => jobs'[j].status = jobs[j].status]_vars

\* C2: in every state of the application every record in the store has a
\* result only if its status is Done, an error only if its status is
\* Failed, and exactly one of the two once its status is Done or Failed.
C2_ResultErrorMatchStatus ==
    \A j \in DOMAIN jobs :
        /\ jobs[j].result # None => jobs[j].status = DONE
        /\ jobs[j].error # None => jobs[j].status = FAILED
        /\ jobs[j].status \in {DONE, FAILED} =>
                (jobs[j].result # None) # (jobs[j].error # None)

\* C2 witness: the store holds a Done record with its result and a Failed
\* record with its error while a poll of one of them is reading its fields.
C2_Witness ==
    /\ \E j \in DOMAIN jobs : jobs[j].status = DONE /\ jobs[j].result # None
    /\ \E j \in DOMAIN jobs : jobs[j].status = FAILED /\ jobs[j].error # None
    /\ loop.pc = "read_result"

\* C3: the (status, result, error) a poll reports equals the record's fields
\* at one committed state of the store between get_job and the response; in
\* particular it never shows a Queued or Running status with a result or an
\* error, nor a Done or Failed status with neither.
C3_PollSnapshot ==
    resp.kind = "job" =>
        /\ resp.atomic
        /\ resp.status \in {QUEUED, RUNNING} =>
                (resp.result = None /\ resp.error = None)
        /\ resp.status \in {DONE, FAILED} =>
                (resp.result # None \/ resp.error # None)

\* C10: a worker whose update to Running returned None (the record was
\* missing) never invokes the crew and never attempts a terminal update.
C10_AbortWhenMissing ==
    \A j \in DOMAIN disp :
        (disp[j].pc # "start" /\ ~disp[j].found) =>
            (disp[j].invoked = 0 /\ ~disp[j].terminal)

\* C4: when create_job returns, get_job of the returned job id gives a record
\* with that job id, the trace id and crew passed to create_job, status
\* Queued, and result and error None.
C4_CreateThenGet ==
    [][creating' # creating =>
          \A c \in Callers :
              CallCreateInsert(c) =>
                  LET job == get_job(jobs', creating[c].job.job_id)
                  IN  /\ job # NoJob
                      /\ job.job_id = creating[c].job.job_id
                      /\ job.trace_id = creating[c].trace_id
                      /\ job.crew = creating[c].crew
                      /\ job.status = QUEUED
                      /\ job.result = None
                      /\ job.error = None]_vars

\* C4 witness: a create_job has just returned while the store holds another
\* record.
C4_Witness ==
    /\ last.op = "create"
    /\ Cardinality(DOMAIN jobs) = 2

\* C5: the create_job calls that returned, overlapping or not, returned
\* pairwise distinct job ids, and get_job finds every created record under
\* its own id for as long as no cleanup removed it.
C5_DistinctRetrievable ==
    /\ Cardinality(created) =
            uuids - Cardinality({c \in Callers : creating[c] # NoFrame})
    /\ \A j \in created \ swept :
            get_job(jobs, j) # NoJob /\ get_job(jobs, j).job_id = j

\* C5 witness: two create_job calls overlapped (the one that drew its id
\* first is still before the lock, the other has returned) next to an update
\* and a cleanup.
C5_Witness ==
    /\ \E c \in Callers :
            /\ creating[c] # NoFrame
            /\ \E j \in created : j > creating[c].job.job_id
    /\ updates > 0
    /\ sweeping # NoCutoff

\* C6: cleanup_old_jobs computes its cutoff as the clock it read minus the
\* TTL, removes exactly the records with created_at < cutoff whatever their
\* status, leaves every other record unchanged, and returns the number of
\* records it removed.
C6_SweepExact ==
    [][sweeping' # sweeping =>
          /\ Cleanup => sweeping' = now - ttl_seconds
          /\ CleanupCommit =>
                /\ DOMAIN jobs' \subseteq DOMAIN jobs
                /\ \A j \in DOMAIN jobs :
                        (j \notin DOMAIN jobs') <=> (jobs[j].created_at < sweeping)
                /\ \A j \in DOMAIN jobs' : jobs'[j] = jobs[j]
                /\ last'.count = Cardinality(DOMAIN jobs \ DOMAIN jobs')]_vars

\* C6 witness: a cleanup removed a record and kept one whose created_at
\* equals the cutoff and one that is still Running.
C6_Witness ==
    /\ last.op \in Cleanups
    /\ last.count > 0
    /\ \E j \in DOMAIN jobs : jobs[j].created_at = last.cutoff
    /\ \E j \in DOMAIN jobs : jobs[j].status = RUNNING

\* C7 as stated: a cleanup that directly follows a cleanup (no create_job and
\* no other store call in between) returns 0 and leaves the store unchanged.
C7_SecondSweepZero ==
    [][(last.op \in Cleanups /\ CleanupCommit)
          => (last'.count = 0 /\ jobs' = jobs)]_vars

\* C7 amended: a cleanup that directly follows a cleanup returns 0 and leaves
\* the store unchanged when its cutoff is no later than the earlier one's
\* (the clock did not advance between the two readings of now).
C7_SecondSweepZeroSameClock ==
    [][(last.op \in Cleanups /\ sweeping <= last.cutoff /\ CleanupCommit)
          => (last'.count = 0 /\ jobs' = jobs)]_vars

\* C7 witness: the second of two cleanups in a row has returned, its cutoff
\* no later than the first one's, after a cleanup removed a record and while
\* the store is not empty.
C7_Witness ==
    /\ last.op = "cleanup_again"
    /\ swept # {}
    /\ DOMAIN jobs # {}

\* C8: update_job changes, of the record it names, only the fields it was
\* given and updated_at (a call with a status alone leaves result and error
\* as they were), never job_id, trace_id, crew or created_at, and it changes
\* no other record and adds or removes none.  (The step is an update_job
\* call; its job id and status are the ones the history records.)
C8_UpdateFrame ==
    [][updates' # updates =>
          \A j \in {last'.job_id}, a \in {b \in UpdateArgs : b[1] = last'.status} :
              CallUpdate(j, a[1], a[2], a[3]) =>
                  /\ DOMAIN jobs' = DOMAIN jobs
                  /\ \A k \in DOMAIN jobs : k # j => jobs'[k] = jobs[k]
                  /\ j \in DOMAIN jobs =>
                        /\ jobs'[j].job_id = jobs[j].job_id
                        /\ jobs'[j].trace_id = jobs[j].trace_id
                        /\ jobs'[j].crew = jobs[j].crew
                        /\ jobs'[j].created_at = jobs[j].created_at
                        /\ a[1] = None => jobs'[j].status = jobs[j].status
                        /\ a[2] = None => jobs'[j].result = jobs[j].result
                        /\ a[3] = None => jobs'[j].error = jobs[j].error]_vars

\* C8 witness: an update with a status alone was applied to a record that
\* holds a result, next to another record.
C8_Witness ==
    /\ last.op = "update"
    /\ last.status = RUNNING
    /\ last.found
    /\ get_job(jobs, last.job_id).result # None
    /\ Cardinality(DOMAIN jobs) = 2

\* C9: update_job on a job id that is not in the store returns None and
\* leaves the store unchanged, and a record removed by cleanup is in the
\* store at no later time (get_job keeps returning None for it).  (An
\* update_job step names the job id and status the history records.)
C9_UpdateMissing ==
    [][/\ updates' # updates =>
              \A j \in {last'.job_id} \ DOMAIN jobs,
                 a \in {b \in UpdateArgs : b[1] = last'.status} :
                  CallUpdate(j, a[1], a[2], a[3])
                      => (jobs' = jobs /\ ~last'.found)
       /\ \A j \in swept' : get_job(jobs', j) = NoJob]_vars

\* C9 witness: an update naming a record that a cleanup had removed returned
\* None.
C9_Witness ==
    /\ last.op = "update"
    /\ last.job_id \in swept
    /\ ~last.found

\* C11: when crew.run returned a result R and the record is in the store, the
\* worker's update leaves it with status Done, result R and error None, no
\* later step changes a Done record, and a poll that began after the update
\* (every state of the record it could see is Done) reports Done with the
\* record's result and no error.
C11_DoneWithResult ==
    [][/\ \A j \in DOMAIN disp \cap DOMAIN jobs :
              WorkerDone(j) =>
                  /\ disp[j].result \in Results
                  /\ Triple(jobs'[j]) = <<DONE, disp[j].result, None>>
       /\ \A j \in DOMAIN jobs \cap DOMAIN jobs' :
              jobs[j].status = DONE => jobs'[j] = jobs[j]
       /\ (PollReadError /\ \A t \in loop.snaps : t[1] = DONE) =>
              /\ resp'.kind = "job"
              /\ resp'.job_id = loop.ref
              /\ <<resp'.status, resp'.result, resp'.error>>
                    = <<DONE, Deref(jobs, loop).result, None>>
              /\ resp'.result \in Results]_vars

\* C11 witness: a poll that began after the worker stored the result r2
\* reports Done with r2.
C11_Witness ==
    /\ resp.kind = "job"
    /\ resp.status = DONE
    /\ resp.result = "r2"
    /\ resp.error = None
    /\ resp.atomic
    /\ resp.job_id \in DOMAIN disp
    /\ disp[resp.job_id].pc = "exit"

\* C12: whatever exception crew.run raised, the worker's failure branch
\* leaves a record that is in the store with status Failed, result None and
\* the fixed EXECUTION_ERROR payload; the store it leaves is the one it would
\* leave for any other exception; no later step changes a Failed record; and
\* the error a poll reports is None or that payload.
C12_FailedSanitized ==
    [][/\ \A j \in DOMAIN disp \cap DOMAIN jobs :
              WorkerFailed(j) =>
                  /\ disp[j].exc \in Exceptions
                  /\ Triple(jobs'[j]) = <<FAILED, None, EXECUTION_ERROR>>
                  /\ \A e \in Exceptions : failed_update(jobs, j, e, now) = jobs'
       /\ \A j \in DOMAIN jobs \cap DOMAIN jobs' :
              jobs[j].status = FAILED => jobs'[j] = jobs[j]
       /\ resp'.error \in {None, EXECUTION_ERROR}]_vars

\* C12 witness: a poll reports a job Failed with the fixed payload while the
\* worker of another job has caught a RetryError.
C12_Witness ==
    /\ resp.kind = "job"
    /\ <<resp.status, resp.result, resp.error>> = <<FAILED, None, EXECUTION_ERROR>>
    /\ \E k \in DOMAIN disp : disp[k].pc = "failed" /\ disp[k].exc = "RetryError"

\* C13: a call of crew.run makes at most 2 attempts; after a first attempt
\* that failed with a transient error it is not over before a second attempt
\* was made; if both attempts failed with transient errors the call ends in
\* failure after exactly 2 attempts, and if the second attempt returned a
\* result the call ends in success with that result after exactly 2 attempts.
C13_TwoAttempts ==
    LET n == Len(call.tried)
        over == call.pc \in {"returned", "raised", "marked"}
    IN  /\ n <= 2
        /\ (n >= 1 /\ call.tried[1].exc \in Transient) =>
                /\ over => n = 2
                /\ (over /\ call.tried[2].exc \in Transient) =>
                        (call.delivered.exc # None /\ call.delivered.result = None)
                /\ (over /\ call.tried[2].exc = None) =>
                        call.delivered = call.tried[2]

\* C13 witness: the call ended in success after a ConnectionError and a
\* second attempt that returned r1.
C13_Witness ==
    /\ call.pc = "returned"
    /\ Len(call.tried) = 2
    /\ call.tried[1].exc = "ConnectionError"
    /\ call.delivered = [result |-> "r1", exc |-> None]

\* C14: an attempt that failed with an exception of no transient kind is the
\* last attempt of the call (the first one is the only one), the call has
\* raised that exception, and the job is marked Failed; a payload that fails
\* validation raises ValueError with no attempt made and marks the job Failed.
C14_NoRetryOfOthers ==
    /\ \A i \in DOMAIN call.tried :
            (call.tried[i].exc # None /\ call.tried[i].exc \notin Transient) =>
                /\ i = Len(call.tried)
                /\ call.pc \in {"raised", "marked"}
                /\ call.delivered = call.tried[i]
                /\ call.pc = "marked" => call.mark = FAILED
    /\ (call.pc \in {"attempt", "wait", "returned", "raised", "marked"} /\ ~call.valid) =>
            /\ call.tried = <<>>
            /\ call.pc \in {"raised", "marked"}
            /\ call.delivered.exc = "ValueError"
            /\ call.pc = "marked" => call.mark = FAILED

\* C14 witness: the first attempt raised a RuntimeError and the job was
\* marked Failed after that single attempt.
C14_Witness ==
    /\ call.pc = "marked"
    /\ Len(call.tried) = 1
    /\ call.tried[1].exc = "RuntimeError"
    /\ call.mark = FAILED

\* C15: when the second attempt failed with a transient error, the exception
\* crew.run raises to _run_crew_job is the exception of that attempt.
C15_OriginalFailureDelivered ==
    (/\ call.pc \in {"raised", "marked"}
     /\ Len(call.tried) = 2
     /\ call.tried[2].exc \in Transient)
        => call.delivered.exc = call.tried[2].exc

\* C16: the loop of _cleanup_jobs_periodically is running in every state, a
\* failed cleanup_old_jobs call included, so that the next interval sweeps
\* again.
C16_ReaperSurvives ==
    sweeping # ReaperDead

\* C17: a run request that names a crew outside CREW_MAP is answered without
\* dispatch: the handler goes straight to its response (the crew-not-found
\* error, or 401 when the key check failed first) holding no job, the store,
\* the worker threads and the job ids drawn are as before, and the handler
\* does nothing more before it returns; every record in the store and every
\* worker names a crew of CREW_MAP.
C17_UnknownCrewRejected ==
    [][/\ requests' # requests =>
              \A crew_name \in RequestCrews \ CREW_MAP, x_api_key \in ApiKeys,
                 async_mode \in BOOLEAN :
                  RunCrew(crew_name, x_api_key, async_mode) =>
                      /\ loop'.pc = "respond"
                      /\ loop'.job = NoJob
                      /\ resp'.kind = IF require_api_key(x_api_key, api_key)
                                      THEN "crew_not_found" ELSE "401"
                      /\ <<jobs', disp', uuids'>> = <<jobs, disp, uuids>>
       /\ (loop.pc = "respond" /\ loop' # loop) => loop' = IdleLoop
       /\ \A j \in DOMAIN jobs' : jobs'[j].crew \in CREW_MAP
       /\ \A j \in DOMAIN disp' : disp'[j].crew \in CREW_MAP]_vars

\* C17 witness: a request with the right key and an unknown crew is being
\* answered crew-not-found, after an earlier request created a job.
C17_Witness ==
    /\ resp.kind = "crew_not_found"
    /\ loop.pc = "respond"
    /\ requests = 2
    /\ DOMAIN jobs # {}
    /\ DOMAIN disp = DOMAIN jobs

\* C18: a record enters the store Queued; the status of a record in the store
\* changes only from Queued to Running and from Running to Done or Failed
\* (no terminal status is written to a Queued record); a worker issues its
\* writes in the order Running, then one terminal write, after which it
\* issues none.
C18_StatusSequence ==
    [][/\ \A j \in DOMAIN jobs' \ DOMAIN jobs : jobs'[j].status = QUEUED
       /\ \A j \in DOMAIN jobs \cap DOMAIN jobs' :
              jobs'[j].status # jobs[j].status =>
                  <<jobs[j].status, jobs'[j].status>> \in
                      {<<QUEUED, RUNNING>>, <<RUNNING, DONE>>, <<RUNNING, FAILED>>}
       /\ \A j \in DOMAIN disp :
              /\ disp[j].terminal => disp'[j] = disp[j]
              /\ (WorkerStart(j) \/ WorkerDone(j) \/ WorkerFailed(j)) =>
                      <<disp[j].pc, disp'[j].pc>> \in
                          {<<"start", "run">>, <<"done", "exit">>, <<"failed", "exit">>}
              /\ disp'[j].terminal # disp[j].terminal =>
                      (disp[j].pc \in {"done", "failed"} /\ disp[j].invoked = 1)
              /\ (disp[j].pc = "start" /\ disp'[j].pc # "start") =>
                      (WorkerStart(j) /\ disp'[j].pc = "run" /\ ~disp'[j].terminal)]_vars

\* C18 witness: one job went Queued, Running, Done and its worker has ended,
\* while another job is Running under a worker that has not issued its
\* terminal write, and a poll is under way.
C18_Witness ==
    /\ \E j \in DOMAIN jobs \cap DOMAIN disp :
            jobs[j].status = DONE /\ disp[j].terminal
    /\ \E k \in DOMAIN jobs \cap DOMAIN disp :
            jobs[k].status = RUNNING /\ disp[k].pc = "failed"
    /\ loop.pc = "read_result"

\* C19: every JobStore method returns what the operation applied in one
\* piece returns on the store left by the operations completed before it
\* (get_job, create_job and update_job the record then under that id or None,
\* cleanup_old_jobs the number it removed, get_stats the counts), and whenever
\* the lock is free the store is the one those operations produce.
C19_Linearizable ==
    /\ \A t \in Threads : th[t].pc = "release" => th[t].ret = th[t].expect
    /\ lock = None => jobs = committed

\* C19 witness: get_job, holding the lock, has read a record that an
\* update_job marked Done, while cleanup_old_jobs with a cutoff that covers
\* the record waits for the lock.
C19_Witness ==
    /\ lock = "get_job"
    /\ th["get_job"].pc = "release"
    /\ th["get_job"].ret # NoJob
    /\ th["get_job"].ret.status = DONE
    /\ \E t \in Updaters : th[t].pc = "returned"
    /\ th["cleanup_old_jobs"].pc = "enter"
    /\ th["get_job"].ret.created_at < th["cleanup_old_jobs"].cutoff

\* C20: from its first statement until it has issued its terminal update, the
\* trace id in a worker's context is the trace id of its job; while run_crew
\* handles a request the trace id in the handler's context is that
\* request's; a worker's set_trace_id changes the trace id of no other
\* context, and a request's changes that of no worker.
C20_TraceIdPerContext ==
    [][/\ \A j \in DOMAIN disp' :
              disp'[j].pc \in {"run", "done", "failed"} =>
                  /\ ctx'[j] = disp'[j].trace_id
                  /\ j \in DOMAIN jobs' => ctx'[j] = jobs'[j].trace_id
       /\ loop'.pc \in {"insert", "start"} => ctx'[handler] = loop'.job.trace_id
       /\ loop'.pc = "sync" => ctx'[handler] = uuid4(requests' - 1)
       /\ \A j \in DOMAIN disp :
              disp'[j].pc # disp[j].pc =>
                  \A k \in DOMAIN ctx \ {j} : ctx'[k] = ctx[k]
       /\ requests' # requests =>
              \A k \in DOMAIN ctx \ {handler} : ctx'[k] = ctx[k]]_vars

\* C20 witness: two workers are between their first statement and their
\* terminal update, each with its own job's trace id in its context, while
\* the event loop handles a poll with no trace id set.
C20_Witness ==
    /\ \E j \in DOMAIN disp, k \in DOMAIN disp :
            /\ j # k
            /\ disp[j].pc = "run" /\ disp[k].pc = "failed"
            /\ ctx[j] = disp[j].trace_id /\ ctx[k] = disp[k].trace_id
            /\ ctx[j] # ctx[k]
    /\ loop.pc = "read_status"
    /\ ctx[handler] = default_trace_id

\* C21: the async response with the job id is set by the step that follows
\* the insert, with the job's thread started and crew.run not yet invoked,
\* the job Queued if still stored.  When crew.run of one job never returns,
\* a submission still gets its response, a poll still gets its response, a
\* sweep still completes, and every other job still ends Done, Failed or
\* removed.
C21_AsyncDoesNotWait ==
    /\ [][resp'.kind = "accepted" /\ resp.kind # "accepted" =>
              /\ loop.pc = "start"
              /\ resp'.job_id = loop.job.job_id
              /\ disp'[resp'.job_id].pc = "start"
              /\ disp'[resp'.job_id].invoked = 0
              /\ resp'.job_id \in DOMAIN jobs' =>
                     jobs'[resp'.job_id].status = QUEUED]_vars
    /\ (loop.pc \in {"insert", "start", "read_status", "read_result", "read_error"})
           ~> (loop.pc = "respond" /\ resp.kind \in {"accepted", "job"})
    /\ (sweeping # NoCutoff) ~> (sweeping = NoCutoff)
    /\ \A j \in AsyncJobIds \ {BlockedJob} :
           (j \in created) ~>
               (j \notin DOMAIN jobs \/ jobs[j].status \in {DONE, FAILED})

\* crew.run of the first job has not returned; the second job, submitted
\* later, is Done, and a poll of it has its response
C21_Witness ==
    /\ BlockedJob \in DOMAIN disp
    /\ disp[BlockedJob].pc = "run"
    /\ 2 \in DOMAIN jobs
    /\ jobs[2].status = DONE
    /\ resp.kind = "job"
    /\ resp.job_id = 2
    /\ resp.status = DONE

\* C22: with fair scheduling and a crew.run that returns or raises, every job
\* create_job returned for an async request is eventually Done or Failed in
\* the store, or no longer in the store.
C22_EventuallyTerminal ==
    \A j \in AsyncJobIds :
        (j \in created) ~>
            (j \notin DOMAIN jobs \/ jobs[j].status \in {DONE, FAILED})

\* a job whose crew.run raised is Failed in the store
C22_Witness ==
    \E j \in DOMAIN jobs \cap DOMAIN disp :
        /\ j \in created
        /\ disp[j].terminal
        /\ disp[j].invoked = 1
        /\ jobs[j].status = FAILED

\* C23: a run request or a poll whose X-API-Key is absent or is not the
\* configured key is answered 401 and changes nothing of the job subsystem:
\* no uuid drawn, no record created, no thread started, no crew.run on the
\* event loop, the store unchanged and no Job read from it.
C23_UnauthorizedNoEffect ==
    [][loop.pc = "idle" /\ loop'.pc # "idle" =>
          \A x_api_key \in ApiKeys \ {api_key} :
              /\ \A crew_name \in RequestCrews, async_mode \in BOOLEAN :
                     RunCrew(crew_name, x_api_key, async_mode) =>
                         /\ resp'.kind = "401"
                         /\ loop' = [IdleLoop EXCEPT !.pc = "respond"]
                         /\ <<jobs, disp, uuids, created, swept>>' =
                                <<jobs, disp, uuids, created, swept>>
              /\ \A job_id \in PollIds :
                     GetJob(job_id, x_api_key) =>
                         /\ resp'.kind = "401"
                         /\ resp'.job_id = 0
                         /\ loop' = [IdleLoop EXCEPT !.pc = "respond"]
                         /\ <<jobs, disp, uuids, created, swept>>' =
                                <<jobs, disp, uuids, created, swept>>]_vars

\* a request is being answered 401 while the store holds a Running job whose
\* thread is inside crew.run
C23_Witness ==
    /\ resp.kind = "401"
    /\ loop.pc = "respond"
    /\ \E j \in DOMAIN jobs \cap DOMAIN disp :
           /\ jobs[j].status = RUNNING
           /\ disp[j].pc = "run"

====
